---------------------------- MODULE Spec2Model ----------------------------
(***************************************************************************)
(* Smart Manufacturing efficiency prediction: the data-preparation         *)
(* pipeline (src/src/data_processing.py), the training pipeline            *)
(* (src/src/model_training.py) and the serving handler (src/app.py).       *)
(*                                                                         *)
(* Python values are records [t, n, s]: t is the Python type, n the        *)
(* number (an int as itself, a float in tenths), s the text of a str or    *)
(* the name of a non-finite float.                                         *)
(***************************************************************************)
EXTENDS Integers, Sequences, FiniteSets, TLC

VARIABLES
    DEFAULTS_FALLBACK,  \* app.py module global: dict feature -> default
    means_file,         \* content of artifacts/processed/feature_means.json
    last,               \* the request index() handled last and its response
    app_pc,             \* serving process: position in app.py's module body
    app_model,          \* app.py global `model`
    app_scaler,         \* app.py global `scaler`
    raw_csv,            \* content of artifacts/raw/data.csv
    disk,               \* persisted artefacts: file name -> content
    dp,                 \* the DataProcessing object's attributes
    dp_pc,              \* position inside split_and_scale_and_save
    dp_call,            \* the DataProcessing method called last, its outcome
    runs,               \* number of StandardScaler fits made so far
    mt,                 \* the ModelTraining object's attributes
    mt_pc,              \* position inside ModelTraining.load_data
    mt_call             \* the ModelTraining method called last, its outcome

serve_vars == <<DEFAULTS_FALLBACK, means_file, last>>
app_vars   == <<app_pc, app_model, app_scaler>>
dp_vars    == <<raw_csv, dp, dp_pc, dp_call, runs>>
mt_vars    == <<mt, mt_pc, mt_call>>
vars == <<DEFAULTS_FALLBACK, means_file, last, app_pc, app_model, app_scaler,
          raw_csv, disk, dp, dp_pc, dp_call, runs, mt, mt_pc, mt_call>>

(***************************************************************************)
(* Bounds of the model.                                                    *)
(***************************************************************************)
MaxRecords   == 2   \* rows of a drawn training CSV
MaxClassIdx  == 3   \* largest class index the classifier may return
MaxMeansKeys == 1   \* keys of a drawn feature-means document
MaxRuns      == 2   \* scaler fits (runs of split_and_scale_and_save)

(***************************************************************************)
(* Python values.                                                          *)
(***************************************************************************)
PyInt(n)   == [t |-> "int",   n |-> n, s |-> ""]
PyFloat(x) == [t |-> "float", n |-> x, s |-> ""]
PyStr(s)   == [t |-> "str",   n |-> 0, s |-> s]
PyBool(b)  == [t |-> "bool",  n |-> IF b THEN 1 ELSE 0, s |-> ""]
PyNaN      == [t |-> "float", n |-> 0, s |-> "nan"]
PyInf      == [t |-> "float", n |-> 0, s |-> "inf"]
PyNone     == [t |-> "None",  n |-> 0, s |-> ""]

\* Decimal literals: text, whether it is an int or a float literal, and the
\* value (an int literal's value as itself, a float literal's in tenths).
NumLits ==
    { [text |-> "65.0",   int |-> FALSE, n |-> 650],
      [text |-> "50.0",   int |-> FALSE, n |-> 500],
      [text |-> "35.0",   int |-> FALSE, n |-> 350],
      [text |-> "15.0",   int |-> FALSE, n |-> 150],
      [text |-> "0.5",    int |-> FALSE, n |-> 5],
      [text |-> "1.0",    int |-> FALSE, n |-> 10],
      [text |-> "120.0",  int |-> FALSE, n |-> 1200],
      [text |-> "55.0",   int |-> FALSE, n |-> 550],
      [text |-> "0.8",    int |-> FALSE, n |-> 8],
      [text |-> "70.5",   int |-> FALSE, n |-> 705],
      [text |-> "2024.0", int |-> FALSE, n |-> 20240],
      [text |-> "10.0",   int |-> FALSE, n |-> 100],
      [text |-> "2024",   int |-> TRUE,  n |-> 2024],
      [text |-> "1",      int |-> TRUE,  n |-> 1],
      [text |-> "15",     int |-> TRUE,  n |-> 15],
      [text |-> "10",     int |-> TRUE,  n |-> 10] }

\* str(v)
str(v) ==
    CASE v.t = "str"  -> v.s
      [] v.t = "int"  -> (CHOOSE l \in NumLits : l.int /\ l.n = v.n).text
      [] v.t = "float" /\ v.s # "" -> v.s
      [] v.t = "float" -> (CHOOSE l \in NumLits : ~l.int /\ l.n = v.n).text
      [] OTHER -> "None"

\* float(text): the float, or PyNone when float() raises ValueError.
float(text) ==
    IF text = "nan" THEN PyNaN
    ELSE IF text = "inf" THEN PyInf
    ELSE IF \E l \in NumLits : l.text = text
         THEN LET l == CHOOSE l \in NumLits : l.text = text
              IN  PyFloat(IF l.int THEN 10 * l.n ELSE l.n)
         ELSE PyNone

\* isinstance(v, (int, float)); bool is a subclass of int.
IsNumber(v) == v.t \in {"int", "float", "bool"}

(***************************************************************************)
(* app.py: static configuration.                                           *)
(***************************************************************************)
FEATURES ==
    << "Operation_Mode", "Temperature_C", "Vibration_Hz",
       "Power_Consumption_kW", "Network_Latency_ms", "Packet_Loss_%",
       "Quality_Control_Defect_Rate_%", "Production_Speed_units_per_hr",
       "Predictive_Maintenance_Score", "Error_Rate_%",
       "Year", "Month", "Day", "Hour" >>

FeatureNames == { FEATURES[i] : i \in 1..Len(FEATURES) }

LABELS == (0 :> "High") @@ (1 :> "Low") @@ (2 :> "Medium")

OPERATION_MODE_MAP == ("Idle" :> 0) @@ ("Active" :> 1) @@ ("Maintenance" :> 2)

\* list(OPERATION_MODE_MAP.keys()): insertion order.
OPERATION_MODE_CHOICES == << "Idle", "Active", "Maintenance" >>

\* datetime.now() when the serving process starts.
now == [year |-> 2024, month |-> 1, day |-> 15, hour |-> 10]

Min(a, b) == IF a < b THEN a ELSE b

InitialDefaults ==
    [ f \in FeatureNames |->
        CASE f = "Operation_Mode" -> PyStr("Active")
          [] f = "Temperature_C" -> PyFloat(650)
          [] f = "Vibration_Hz" -> PyFloat(500)
          [] f = "Power_Consumption_kW" -> PyFloat(350)
          [] f = "Network_Latency_ms" -> PyFloat(150)
          [] f = "Packet_Loss_%" -> PyFloat(5)
          [] f = "Quality_Control_Defect_Rate_%" -> PyFloat(10)
          [] f = "Production_Speed_units_per_hr" -> PyFloat(1200)
          [] f = "Predictive_Maintenance_Score" -> PyFloat(550)
          [] f = "Error_Rate_%" -> PyFloat(8)
          [] f = "Year" -> PyInt(now.year)
          [] f = "Month" -> PyInt(now.month)
          [] f = "Day" -> PyInt(now.day)
          [] f = "Hour" -> PyInt(Min(now.hour, 23)) ]


(***************************************************************************)
(* app.py: load_feature_means.                                             *)
(***************************************************************************)
EmptyDict == [k \in {} |-> PyNone]

\* DEFAULTS_FALLBACK.copy() with every numeric entry of `means` whose key it
\* has merged over it.
MergeMeans(defaults, means) ==
    [ k \in DOMAIN defaults |->
        IF k \in DOMAIN means /\ IsNumber(means[k]) THEN means[k]
        ELSE defaults[k] ]

\* The dict load_feature_means returns: `alias` says it is the object
\* DEFAULTS_FALLBACK itself (lines 145, 146), not a copy (line 138).
load_feature_means ==
    IF means_file.kind = "dict"
    THEN [alias |-> FALSE, fv |-> MergeMeans(DEFAULTS_FALLBACK, means_file.d)]
    ELSE [alias |-> TRUE,  fv |-> DEFAULTS_FALLBACK]

(***************************************************************************)
(* app.py: index.                                                          *)
(***************************************************************************)
\* request.form.get(key, default)
FormGet(form, key, default) ==
    IF key \in DOMAIN form THEN form[key] ELSE default

\* An exception: its class and its message ("" for no exception).
NoException == [type |-> "", msg |-> ""]
ValueError(msg) == [type |-> "ValueError", msg |-> msg]

\* A bug of the Operation_Mode branch: OPERATION_MODE_MAP.get(mode_label, 0).
ModeStepDefaultCode(st, form) ==
    LET mode_label == FormGet(form, "Operation_Mode", OPERATION_MODE_CHOICES[1])
        mode_code  == IF mode_label \in DOMAIN OPERATION_MODE_MAP
                      THEN OPERATION_MODE_MAP[mode_label] ELSE 0
    IN  [st EXCEPT !.values = Append(@, PyFloat(10 * mode_code)),
                   !.fv = [@ EXCEPT !["Operation_Mode"] = PyStr(mode_label)]]

\* The Operation_Mode branch of the loop body (lines 178-185). st.fv is
\* form_values; with st.alias it is DEFAULTS_FALLBACK itself.
ModeStep(st, form) ==
    LET mode_label == FormGet(form, "Operation_Mode", OPERATION_MODE_CHOICES[1])
    IN  IF mode_label \notin DOMAIN OPERATION_MODE_MAP
        THEN [st EXCEPT !.raised = ValueError("Unknown Operation_Mode")]
        ELSE [st EXCEPT
                !.values = Append(@, PyFloat(10 * OPERATION_MODE_MAP[mode_label])),
                !.fv = [@ EXCEPT !["Operation_Mode"] = PyStr(mode_label)]]

\* A bug of the numeric branch: a field absent from the form is skipped.
NumericStepSkipsAbsent(st, feat, form) ==
    IF feat \notin DOMAIN form THEN st
    ELSE LET val == float(form[feat])
         IN  IF val = PyNone
             THEN [st EXCEPT !.raised =
                               ValueError("could not convert string to float")]
             ELSE [st EXCEPT !.values = Append(@, val),
                             !.fv = [@ EXCEPT ![feat] = val]]

\* The numeric branch of the loop body (lines 186-191).
NumericStep(st, feat, form) ==
    LET D       == IF st.alias THEN st.fv ELSE DEFAULTS_FALLBACK
        raw_val == FormGet(form, feat, str(D[feat]))
        val     == float(raw_val)
    IN  IF val = PyNone
        THEN [st EXCEPT !.raised = ValueError("could not convert string to float")]
        ELSE [st EXCEPT !.values = Append(@, val),
                        !.fv = [@ EXCEPT ![feat] = val]]

\* One pass of the loop body for FEATURES[i].
BuildStep(st, i, form) ==
    IF FEATURES[i] = "Operation_Mode" THEN ModeStep(st, form)
    ELSE NumericStep(st, FEATURES[i], form)

\* The for loop of lines 177-191 from FEATURES[i] on; an exception ends it.
RECURSIVE BuildVector(_, _, _)
BuildVector(st, i, form) ==
    IF i > Len(FEATURES) \/ st.raised # NoException THEN st
    ELSE BuildVector(BuildStep(st, i, form), i + 1, form)

HasInf(values) == \E i \in 1..Len(values) : values[i] = PyInf
HasNaN(values) == \E i \in 1..Len(values) : values[i] = PyNaN

NoPrediction == [kind |-> "None", s |-> "", n |-> 0]

\* LABELS.get(pred_idx, f"Unknown ({pred_idx})")
LabelOf(pred_idx) ==
    IF pred_idx \in DOMAIN LABELS
    THEN [kind |-> "Label", s |-> LABELS[pred_idx], n |-> pred_idx]
    ELSE [kind |-> "Unknown", s |-> "", n |-> pred_idx]

\* f"Error: {e}"
ErrorString(e) == [kind |-> "Error", s |-> e.msg, n |-> 0]

\* The try block of a POST (lines 173-197). scaler.transform rejects an
\* infinite input and passes NaN on; model.predict rejects NaN and otherwise
\* answers one of `answers`, the class indices the classifier may return.
\* The set of the outcomes the block may have.
TryBlock(lm, form, answers) ==
    LET st == BuildVector([values |-> <<>>, fv |-> lm.fv, raised |-> NoException,
                           alias |-> lm.alias], 1, form)
        r  == [values |-> st.values, fv |-> st.fv, scaled |-> FALSE,
               predicted |-> FALSE, prediction |-> NoPrediction,
               raised |-> st.raised]
    IN  IF st.raised # NoException THEN {r}
        ELSE IF HasInf(st.values)
        THEN {[r EXCEPT !.scaled = TRUE,
                        !.raised = ValueError("Input contains infinity")]}
        ELSE IF HasNaN(st.values)
        THEN {[r EXCEPT !.scaled = TRUE, !.predicted = TRUE,
                        !.raised = ValueError("Input contains NaN")]}
        ELSE {[r EXCEPT !.scaled = TRUE, !.predicted = TRUE,
                        !.prediction = LabelOf(pred_idx)] : pred_idx \in answers}

\* A bug of the except clause: `except KeyError`.
CatchesKeyErrorOnly(e) == e.type = "KeyError"

\* `except Exception` (line 199) catches e.
Catches(e) == e.type \notin {"KeyboardInterrupt", "SystemExit", "GeneratorExit"}

\* The try statement of lines 173-201: an exception the except clause
\* catches becomes the prediction; one it does not leaves index() uncaught.
HandlePost(lm, form, answers) ==
    { IF r.raised # NoException /\ Catches(r.raised)
      THEN [r EXCEPT !.prediction = ErrorString(r.raised)]
      ELSE r : r \in TryBlock(lm, form, answers) }

HandleGet(lm) ==
    {[values |-> <<>>, fv |-> lm.fv, scaled |-> FALSE, predicted |-> FALSE,
      prediction |-> NoPrediction, raised |-> NoException]}

\* Fields a drawn submission may carry, and the texts it may carry in them.
FormFields == {"Operation_Mode", "Hour"}
ModeInputs == {"Idle", "Active", "Maintenance", "Turbo"}
NumInputs  == {"70.5", "abc", "nan", "inf"}
FieldInputs(f) == IF f = "Operation_Mode" THEN ModeInputs ELSE NumInputs
Forms ==
    UNION { { g \in [S -> ModeInputs \cup NumInputs] :
                \A f \in S : g[f] \in FieldInputs(f) } : S \in SUBSET FormFields }

\* index(): one request, whole handler. `rendered` says the handler reached
\* render_template (no exception left the try statement); form_values is
\* passed to the template as `defaults`.
index(method, form) ==
    /\ app_pc = "serving"
    /\ LET lm == load_feature_means
       IN  \E r \in (IF method = "POST"
                     THEN HandlePost(lm, form, 0..MaxClassIdx)
                     ELSE HandleGet(lm)) :
             /\ DEFAULTS_FALLBACK' = IF lm.alias THEN r.fv ELSE DEFAULTS_FALLBACK
             /\ last' = [method |-> method, form |-> form, values |-> r.values,
                         scaled |-> r.scaled, predicted |-> r.predicted,
                         raised |-> r.raised, prediction |-> r.prediction,
                         defaults |-> r.fv,
                         rendered |-> (r.raised = NoException \/ Catches(r.raised))]
    /\ UNCHANGED <<means_file, app_vars, dp_vars, mt_vars, disk>>

Get  == index("GET", EmptyDict)
Post == \E form \in Forms : index("POST", form)

(***************************************************************************)
(* data_processing.py: the training CSV and the dataframe.                 *)
(* A row keeps its two categorical columns; a dataframe is the raw frame   *)
(* read from the CSV (with Timestamp and Machine_ID, without the calendar  *)
(* columns) or the preprocessed one (calendar columns added, categoricals  *)
(* replaced by their integer codes).                                       *)
(***************************************************************************)
Modes    == {"Active", "Idle", "Maintenance", "Standby"}
Statuses == {"High", "Low", "Medium"}

Row(mode, status) == [Operation_Mode |-> PyStr(mode),
                      Efficiency_Status |-> PyStr(status)]
RowTypes == { Row(m, e) : m \in Modes, e \in Statuses }

NoCSV == [exists |-> FALSE, rows |-> <<>>]
CSV(rows) == [exists |-> TRUE, rows |-> rows]

\* Every CSV of 1..MaxRecords rows.
SmallCSVs == UNION { { CSV(r) : r \in [1..n -> RowTypes] } : n \in 1..MaxRecords }

\* A CSV large enough for the stratified split and the classifier's fit:
\* two classes of three rows each.
ReferenceCSV ==
    CSV(<< Row("Idle", "Low"), Row("Active", "High"), Row("Active", "Low"),
           Row("Maintenance", "High"), Row("Idle", "High"),
           Row("Maintenance", "Low") >>)

\* A CSV the stratified split rejects: one row.
TinyCSV == CSV(<< Row("Idle", "Low") >>)

NoDF == [stage |-> "None", rows |-> <<>>]

\* Unicode code points of the labels, as Python compares str.
CodePoints(label) ==
    CASE label = "Active"      -> <<65, 99, 116, 105, 118, 101>>
      [] label = "Idle"        -> <<73, 100, 108, 101>>
      [] label = "Maintenance" -> <<77, 97, 105, 110, 116, 101, 110, 97, 110, 99, 101>>
      [] label = "Standby"     -> <<83, 116, 97, 110, 100, 98, 121>>
      [] label = "High"        -> <<72, 105, 103, 104>>
      [] label = "Low"         -> <<76, 111, 119>>
      [] label = "Medium"      -> <<77, 101, 100, 105, 117, 109>>

\* a < b on sequences of code points (lexicographic).
RECURSIVE SeqLess(_, _)
SeqLess(a, b) ==
    IF b = <<>> THEN FALSE
    ELSE IF a = <<>> THEN TRUE
    ELSE IF Head(a) # Head(b) THEN Head(a) < Head(b)
    ELSE SeqLess(Tail(a), Tail(b))

StrLess(a, b) == SeqLess(CodePoints(a), CodePoints(b))

Column(rows, col) == [i \in 1..Len(rows) |-> rows[i][col].s]
Distinct(column) == { column[i] : i \in 1..Len(column) }

\* The order of first appearance: the labels not seen before position i.
FirstSeenClasses(column) ==
    LET firsts == { i \in 1..Len(column) :
                      \A j \in 1..(i - 1) : column[j] # column[i] }
        pos(l) == CHOOSE i \in firsts : column[i] = l
    IN  [ l \in Distinct(column) |->
            Cardinality({ m \in Distinct(column) : pos(m) < pos(l) }) ]

\* LabelEncoder.fit: classes_ is the sorted array of the distinct labels;
\* the mapping dict(zip(le.classes_, range(len(le.classes_)))) of line 165.
LabelEncoderClasses(column) ==
    [ l \in Distinct(column) |->
        Cardinality({ m \in Distinct(column) : StrLess(m, l) }) ]

\* LabelEncoder.fit_transform: each label's index in classes_.
fit_transform(column) ==
    [i \in 1..Len(column) |-> PyInt(LabelEncoderClasses(column)[column[i]])]

EncodeRows(rows) ==
    LET es == fit_transform(Column(rows, "Efficiency_Status"))
        om == fit_transform(Column(rows, "Operation_Mode"))
    IN  [i \in 1..Len(rows) |->
           [Operation_Mode |-> om[i], Efficiency_Status |-> es[i]]]

NoMapping == [Efficiency_Status |-> EmptyDict, Operation_Mode |-> EmptyDict]
Returned(op) == [op |-> op, outcome |-> "ok", cause |-> "", mapping |-> NoMapping]
Raised(op, cause) ==
    [op |-> op, outcome |-> "CustomException", cause |-> cause,
     mapping |-> NoMapping]
NotLoaded == "ValueError: Dataframe is not loaded"

DPIdle == [at |-> "idle", k |-> 0, run |-> 0, n |-> 0, classes |-> 0]

(***************************************************************************)
(* data_processing.py: DataProcessing.load_data, preprocess.               *)
(***************************************************************************)
DP_load_data ==
    /\ dp_pc = DPIdle
    /\ IF raw_csv.exists
       THEN /\ dp' = [dp EXCEPT !.df = [stage |-> "raw", rows |-> raw_csv.rows]]
            /\ dp_call' = Returned("load_data")
       ELSE /\ dp_call' = Raised("load_data", "FileNotFoundError")
            /\ UNCHANGED dp
    /\ UNCHANGED <<raw_csv, dp_pc, runs, disk, serve_vars, app_vars, mt_vars>>

DP_preprocess ==
    /\ dp_pc = DPIdle
    /\ CASE dp.df.stage = "None" ->
              /\ dp_call' = Raised("preprocess", NotLoaded)
              /\ UNCHANGED dp
         [] dp.df.stage = "raw" ->
              /\ dp' = [dp EXCEPT !.df = [stage |-> "preprocessed",
                                          rows |-> EncodeRows(dp.df.rows)]]
              /\ dp_call' =
                   [Returned("preprocess") EXCEPT !.mapping =
                      [Efficiency_Status |->
                         LabelEncoderClasses(Column(dp.df.rows, "Efficiency_Status")),
                       Operation_Mode |->
                         LabelEncoderClasses(Column(dp.df.rows, "Operation_Mode"))]]
         [] dp.df.stage = "preprocessed" ->
              \* self.df["Timestamp"] was dropped by the first call
              /\ dp_call' = Raised("preprocess", "KeyError: Timestamp")
              /\ UNCHANGED dp
    /\ UNCHANGED <<raw_csv, dp_pc, runs, disk, serve_vars, app_vars, mt_vars>>

(***************************************************************************)
(* Persisted artefacts. A partition or a scaler is known by the run (the   *)
(* StandardScaler fit) that produced it; a partition also by its number of *)
(* rows and of classes; a model by the runs of the X_train and y_train it  *)
(* was fitted on.                                                          *)
(***************************************************************************)
NoFile == [run |-> 0, yrun |-> 0, n |-> 0, classes |-> 0]
Artefact(run, n, classes) == [run |-> run, yrun |-> run, n |-> n, classes |-> classes]

ProcessedFiles == << "X_train.pkl", "X_test.pkl", "y_train.pkl", "y_test.pkl",
                     "scaler.pkl" >>
FileNames == { ProcessedFiles[i] : i \in 1..Len(ProcessedFiles) } \cup {"model.pkl"}

\* The list of lines 196-211.
TrainFeatures ==
    << "Operation_Mode", "Temperature_C", "Vibration_Hz",
       "Power_Consumption_kW", "Network_Latency_ms", "Packet_Loss_%",
       "Quality_Control_Defect_Rate_%", "Production_Speed_units_per_hr",
       "Predictive_Maintenance_Score", "Error_Rate_%",
       "Year", "Month", "Day", "Hour" >>

NumClasses(rows) ==
    Cardinality({ rows[i].Efficiency_Status : i \in 1..Len(rows) })

ClassCount(rows, c) ==
    Cardinality({ i \in 1..Len(rows) : rows[i].Efficiency_Status = c })

\* ceil(0.2 * n)
TestSize(n) == (n + 4) \div 5

\* train_test_split(test_size=0.2, stratify=y) accepts y: every class has
\* at least two rows, and neither part is smaller than the number of classes.
StratifyOK(rows) ==
    LET n == Len(rows)
        k == NumClasses(rows)
    IN  /\ \A i \in 1..n : ClassCount(rows, rows[i].Efficiency_Status) >= 2
        /\ TestSize(n) >= k
        /\ n - TestSize(n) >= k

(***************************************************************************)
(* data_processing.py: DataProcessing.split_and_scale_and_save.            *)
(* The call runs to its first joblib.dump in one step; the five dumps are  *)
(* steps of their own, since other processes read the files meanwhile.     *)
(***************************************************************************)
DP_split_and_scale_and_save ==
    /\ dp_pc = DPIdle
    /\ CASE dp.df.stage = "None" ->
              /\ dp_call' = Raised("split_and_scale_and_save", NotLoaded)
              /\ UNCHANGED <<dp, dp_pc, runs>>
         [] dp.df.stage = "raw" ->
              \* self.features is assigned, then self.df[self.features]
              \* finds no Year, Month, Day, Hour columns
              /\ dp' = [dp EXCEPT !.features = TrainFeatures]
              /\ dp_call' = Raised("split_and_scale_and_save", "KeyError: Year")
              /\ UNCHANGED <<dp_pc, runs>>
         [] dp.df.stage = "preprocessed" ->
              /\ runs < MaxRuns
              /\ dp' = [dp EXCEPT !.features = TrainFeatures]
              /\ runs' = runs + 1
              /\ IF StratifyOK(dp.df.rows)
                 THEN /\ dp_pc' = [at |-> "dump", k |-> 1, run |-> runs + 1,
                                   n |-> Len(dp.df.rows),
                                   classes |-> NumClasses(dp.df.rows)]
                      /\ UNCHANGED dp_call
                 ELSE /\ dp_call' = Raised("split_and_scale_and_save",
                                           "ValueError: stratify")
                      /\ UNCHANGED dp_pc
    /\ UNCHANGED <<raw_csv, disk, serve_vars, app_vars, mt_vars>>

\* Rows of the partition a processed file holds.
PartRows(file, n) ==
    IF file \in {"X_test.pkl", "y_test.pkl"} THEN TestSize(n)
    ELSE IF file = "scaler.pkl" THEN 0
    ELSE n - TestSize(n)

\* joblib.dump number dp_pc.k (lines 227-231) writes its file.
DP_dump ==
    /\ dp_pc.at = "dump"
    /\ LET file == ProcessedFiles[dp_pc.k]
       IN  disk' = [disk EXCEPT ![file] =
                      Artefact(dp_pc.run, PartRows(file, dp_pc.n),
                               IF file = "scaler.pkl" THEN 0 ELSE dp_pc.classes)]
    /\ IF dp_pc.k = Len(ProcessedFiles)
       THEN /\ dp_pc' = DPIdle
            /\ dp_call' = Returned("split_and_scale_and_save")
       ELSE /\ dp_pc' = [dp_pc EXCEPT !.k = @ + 1]
            /\ UNCHANGED dp_call
    /\ UNCHANGED <<raw_csv, dp, runs, serve_vars, app_vars, mt_vars>>

\* joblib.dump number dp_pc.k raises (the disk is full, the directory went
\* away): the except clause of line 234 ends the call.
DP_dump_fails ==
    /\ dp_pc.at = "dump"
    /\ dp_pc' = DPIdle
    /\ dp_call' = Raised("split_and_scale_and_save", "OSError")
    /\ UNCHANGED <<raw_csv, dp, runs, disk, serve_vars, app_vars, mt_vars>>

(***************************************************************************)
(* model_training.py: ModelTraining.                                       *)
(***************************************************************************)
SplitFiles == << "X_train.pkl", "X_test.pkl", "y_train.pkl", "y_test.pkl" >>
SplitNames == { SplitFiles[i] : i \in 1..Len(SplitFiles) }

NoClf == [state |-> "None", run |-> 0, yrun |-> 0]

\* ModelTraining.load_data: the joblib.load of line 111 + mt_pc. A missing
\* file raises and ends the call; what was loaded before it stays loaded.
MT_load_data ==
    /\ LET file == SplitFiles[mt_pc + 1]
       IN  IF disk[file] = NoFile
           THEN /\ mt_call' = Raised("load_data", "FileNotFoundError")
                /\ mt_pc' = 0
                /\ UNCHANGED mt
           ELSE /\ mt' = [mt EXCEPT !.data[file] = disk[file]]
                /\ IF mt_pc + 1 = Len(SplitFiles)
                   THEN /\ mt_pc' = 0
                        /\ mt_call' = Returned("load_data")
                   ELSE /\ mt_pc' = mt_pc + 1
                        /\ UNCHANGED mt_call
    /\ UNCHANGED <<disk, serve_vars, app_vars, dp_vars>>

\* LogisticRegression.fit(X_train, y_train) accepts its arguments: both are
\* arrays, of the same number of rows, and y holds at least two classes.
FitOK(X, y) ==
    /\ X # NoFile
    /\ y # NoFile
    /\ X.n = y.n
    /\ y.classes >= 2

ModelFile(X, y) == [run |-> X.run, yrun |-> y.run, n |-> X.n, classes |-> y.classes]

\* A bug of train_model: the joblib.dump of line 144 is left out (or moved
\* after the evaluation), and the call returns all the same.
MT_train_model_NoDump(dump_ok) ==
    /\ mt_pc = 0
    /\ LET X == mt.data["X_train.pkl"]
           y == mt.data["y_train.pkl"]
       IN  IF ~FitOK(X, y)
           THEN /\ mt' = [mt EXCEPT !.clf = [NoClf EXCEPT !.state = "unfitted"]]
                /\ mt_call' = Raised("train_model", "ValueError: fit")
           ELSE /\ mt' = [mt EXCEPT !.clf = [state |-> "fitted", run |-> X.run,
                                             yrun |-> y.run]]
                /\ mt_call' = IF dump_ok THEN Returned("train_model")
                              ELSE Raised("train_model", "OSError")
    /\ UNCHANGED <<disk, mt_pc, serve_vars, app_vars, dp_vars>>

\* ModelTraining.train_model; dump_ok says whether joblib.dump succeeds.
MT_train_model(dump_ok) ==
    /\ mt_pc = 0
    /\ LET X == mt.data["X_train.pkl"]
           y == mt.data["y_train.pkl"]
       IN  IF ~FitOK(X, y)
           THEN /\ mt' = [mt EXCEPT !.clf = [NoClf EXCEPT !.state = "unfitted"]]
                /\ mt_call' = Raised("train_model", "ValueError: fit")
                /\ UNCHANGED disk
           ELSE /\ mt' = [mt EXCEPT !.clf = [state |-> "fitted", run |-> X.run,
                                             yrun |-> y.run]]
                /\ IF dump_ok
                   THEN /\ disk' = [disk EXCEPT !["model.pkl"] = ModelFile(X, y)]
                        /\ mt_call' = Returned("train_model")
                   ELSE /\ mt_call' = Raised("train_model", "OSError")
                        /\ UNCHANGED disk
    /\ UNCHANGED <<mt_pc, serve_vars, app_vars, dp_vars>>

NotTrained == "ValueError: Model not trained"

\* ModelTraining.evaluate_model
MT_evaluate_model ==
    /\ mt_pc = 0
    /\ LET X == mt.data["X_test.pkl"]
           y == mt.data["y_test.pkl"]
       IN  mt_call' =
             CASE mt.clf.state = "None" -> Raised("evaluate_model", NotTrained)
               [] mt.clf.state = "unfitted" ->
                    Raised("evaluate_model", "NotFittedError")
               [] X = NoFile \/ y = NoFile \/ X.n # y.n ->
                    Raised("evaluate_model", "ValueError: metrics")
               [] OTHER -> Returned("evaluate_model")
    /\ UNCHANGED <<mt, mt_pc, disk, serve_vars, app_vars, dp_vars>>

(***************************************************************************)
(* app.py: the module body's two loads (lines 54, 55).                     *)
(***************************************************************************)
AppLoadModel ==
    /\ app_pc = "start"
    /\ IF disk["model.pkl"] = NoFile
       THEN /\ app_pc' = "crashed"
            /\ UNCHANGED app_model
       ELSE /\ app_pc' = "model_loaded"
            /\ app_model' = disk["model.pkl"]
    /\ UNCHANGED <<app_scaler, disk, serve_vars, dp_vars, mt_vars>>

AppLoadScaler ==
    /\ app_pc = "model_loaded"
    /\ IF disk["scaler.pkl"] = NoFile
       THEN /\ app_pc' = "crashed"
            /\ UNCHANGED app_scaler
       ELSE /\ app_pc' = "serving"
            /\ app_scaler' = disk["scaler.pkl"]
    /\ UNCHANGED <<app_model, disk, serve_vars, dp_vars, mt_vars>>

(***************************************************************************)
(* Initial states and specifications.                                      *)
(***************************************************************************)
NoRequest ==
    [method |-> "", form |-> EmptyDict, values |-> <<>>, scaled |-> FALSE,
     predicted |-> FALSE, raised |-> NoException, prediction |-> NoPrediction,
     defaults |-> InitialDefaults, rendered |-> FALSE]

NoCall == [op |-> "", outcome |-> "", cause |-> "", mapping |-> NoMapping]

\* DataProcessing.__init__ and ModelTraining.__init__
NewDP == [df |-> NoDF, features |-> <<>>]
NewMT == [data |-> [f \in SplitNames |-> NoFile], clf |-> NoClf]

EmptyDisk == [f \in FileNames |-> NoFile]

\* The artefacts of one finished training run.
TrainedDisk ==
    [f \in FileNames |->
        IF f = "model.pkl" THEN ModelFile(Artefact(1, 4, 2), Artefact(1, 4, 2))
        ELSE Artefact(1, PartRows(f, Len(ReferenceCSV.rows)),
                      IF f = "scaler.pkl" THEN 0 ELSE 2)]

\* Contents of the feature-means document.
MeansKeys  == {"Operation_Mode", "Temperature_C", "Year", "Humidity"}
JsonValues == {PyFloat(705), PyStr("hot")}
MeansDicts ==
    UNION { [S -> JsonValues] :
              S \in { T \in SUBSET MeansKeys : Cardinality(T) <= MaxMeansKeys } }
MeansFiles ==
    { [kind |-> k, d |-> EmptyDict] : k \in {"absent", "malformed", "list"} }
    \cup { [kind |-> "dict", d |-> d] : d \in MeansDicts }

FreshPipelines ==
    /\ dp = NewDP
    /\ dp_pc = DPIdle
    /\ dp_call = NoCall
    /\ runs = 0
    /\ mt = NewMT
    /\ mt_pc = 0
    /\ mt_call = NoCall

FreshServing ==
    /\ DEFAULTS_FALLBACK = InitialDefaults
    /\ last = NoRequest

\* Serving: the process has loaded the artefacts of a finished run.
InitServe ==
    /\ FreshServing
    /\ means_file \in MeansFiles
    /\ app_pc = "serving"
    /\ app_model = TrainedDisk["model.pkl"]
    /\ app_scaler = TrainedDisk["scaler.pkl"]
    /\ raw_csv = ReferenceCSV
    /\ disk = TrainedDisk
    /\ FreshPipelines

NextServe == Get \/ Post

SpecServe == InitServe /\ [][NextServe]_vars

\* The pipelines and the serving process start on an empty artefact store.
Init ==
    /\ FreshServing
    /\ means_file = [kind |-> "absent", d |-> EmptyDict]
    /\ app_pc = "start"
    /\ app_model = NoFile
    /\ app_scaler = NoFile
    /\ raw_csv \in {NoCSV, TinyCSV, ReferenceCSV}
    /\ disk = EmptyDisk
    /\ FreshPipelines

\* The two pipelines, on their own.
NextTrain ==
    \/ DP_load_data
    \/ DP_preprocess
    \/ DP_split_and_scale_and_save
    \/ DP_dump
    \/ DP_dump_fails
    \/ MT_load_data
    \/ \E dump_ok \in BOOLEAN : MT_train_model(dump_ok)
    \/ MT_evaluate_model

SpecTrain == Init /\ [][NextTrain]_vars

\* A CSV of another size than ReferenceCSV: eleven rows, two classes.
LargerCSV ==
    CSV(<< Row("Idle", "Low"), Row("Active", "High"), Row("Active", "Low"),
           Row("Maintenance", "High"), Row("Idle", "High"),
           Row("Maintenance", "Low"), Row("Standby", "Low"),
           Row("Standby", "High"), Row("Idle", "Low"), Row("Active", "High"),
           Row("Active", "Low") >>)

\* The raw data file is replaced by a larger one between two preparation runs.
NewData ==
    /\ dp_pc = DPIdle
    /\ raw_csv = ReferenceCSV
    /\ raw_csv' = LargerCSV
    /\ UNCHANGED <<dp, dp_pc, dp_call, runs, disk, serve_vars, app_vars, mt_vars>>

\* ModelTraining.run (lines 201-203): load_data, train_model, evaluate_model,
\* each called when the one before it returned; an exception ends the run,
\* and run may then be called again.
RunInProgress == mt_call \in {Returned("load_data"), Returned("train_model")}

ModelTraining_run ==
    \/ (mt_pc > 0 \/ ~RunInProgress) /\ MT_load_data
    \/ mt_call = Returned("load_data")
         /\ \E dump_ok \in BOOLEAN : MT_train_model(dump_ok)
    \/ mt_call = Returned("train_model") /\ MT_evaluate_model

InitRun ==
    /\ FreshServing
    /\ means_file = [kind |-> "absent", d |-> EmptyDict]
    /\ app_pc = "start"
    /\ app_model = NoFile
    /\ app_scaler = NoFile
    /\ raw_csv = ReferenceCSV
    /\ disk = EmptyDisk
    /\ FreshPipelines

\* DataProcessing.run (lines 249-251): load_data, preprocess,
\* split_and_scale_and_save with its dumps, each called when the one before
\* it returned; an exception ends the run, and run may then be called again.
DPRunInProgress ==
    dp_call.outcome = "ok" /\ dp_call.op \in {"load_data", "preprocess"}

DataProcessing_run ==
    \/ ~DPRunInProgress /\ DP_load_data
    \/ dp_call = Returned("load_data") /\ DP_preprocess
    \/ dp_call.op = "preprocess" /\ dp_call.outcome = "ok"
         /\ DP_split_and_scale_and_save
    \/ DP_dump
    \/ DP_dump_fails

\* Runs of DataProcessing.run, on data that may change, beside runs of
\* ModelTraining.run.
NextRun ==
    \/ DataProcessing_run
    \/ NewData
    \/ ModelTraining_run

SpecRun == InitRun /\ [][NextRun]_vars

\* The two pipelines and a serving process that starts at any moment.
Next ==
    \/ NextTrain
    \/ AppLoadModel
    \/ AppLoadScaler
    \/ Get

Spec == Init /\ [][Next]_vars

\* Encoding: every small training CSV, loaded and preprocessed.
InitEncode ==
    /\ FreshServing
    /\ means_file = [kind |-> "absent", d |-> EmptyDict]
    /\ app_pc = "start"
    /\ app_model = NoFile
    /\ app_scaler = NoFile
    /\ raw_csv \in SmallCSVs \cup {ReferenceCSV}
    /\ disk = EmptyDisk
    /\ FreshPipelines

NextEncode == DP_load_data \/ DP_preprocess

SpecEncode == InitEncode /\ [][NextEncode]_vars

(***************************************************************************)
(* Claims about the serving handler (SpecServe).                           *)
(***************************************************************************)
KnownModes == DOMAIN OPERATION_MODE_MAP

\* C2: every POST whose vector reaches the scaler built a vector of exactly
\* 14 elements, element i being the value of the field named FEATURES[i]
\* (the submitted text converted, or the value shown for it in the rendered
\* form; for Operation_Mode the code of the label), and FEATURES is the
\* list split_and_scale_and_save fits the scaler on.
C2_VectorInSchemaOrder ==
    /\ FEATURES = TrainFeatures
    /\ (last.method = "POST" /\ last.scaled) =>
         /\ Len(last.values) = 14
         /\ \A i \in 1..14 :
              LET f == FEATURES[i]
              IN  IF f = "Operation_Mode"
                  THEN /\ last.defaults[f].s \in KnownModes
                       /\ last.values[i] =
                            PyFloat(10 * OPERATION_MODE_MAP[last.defaults[f].s])
                       /\ f \in DOMAIN last.form => last.defaults[f].s = last.form[f]
                  ELSE /\ last.values[i] = last.defaults[f]
                       /\ f \in DOMAIN last.form => last.values[i] = float(last.form[f])

C2_Witness ==
    /\ last.method = "POST"
    /\ last.scaled
    /\ last.prediction.kind = "Label"
    /\ DOMAIN last.form = {"Operation_Mode", "Hour"}
    /\ last.form["Hour"] = "70.5"
    /\ last.form["Operation_Mode"] = "Maintenance"

\* C3: a POST whose Operation_Mode is a label outside the known set ends
\* with an error as its prediction; no code was put into the vector and
\* neither the scaler nor the model was called.
C3_UnknownModeIsReported ==
    (/\ last.method = "POST"
     /\ "Operation_Mode" \in DOMAIN last.form
     /\ last.form["Operation_Mode"] \notin KnownModes) =>
        /\ last.prediction.kind = "Error"
        /\ last.values = <<>>
        /\ ~last.scaled
        /\ ~last.predicted

C3_Witness ==
    /\ last.method = "POST"
    /\ "Operation_Mode" \in DOMAIN last.form
    /\ last.form["Operation_Mode"] = "Turbo"
    /\ last.prediction = ErrorString(ValueError("Unknown Operation_Mode"))

\* C4: every POST ends rendered, never with an uncaught exception; its
\* prediction is the LABELS string of the predicted index when LABELS has
\* it, "Unknown (<index>)" when it has not, and an "Error: ..." string
\* exactly when building the vector, scaling or predicting raised.
C4_PostAlwaysRenders ==
    last.method = "POST" =>
        /\ last.rendered
        /\ last.prediction.kind \in {"Label", "Unknown", "Error"}
        /\ last.prediction.kind = "Error" <=> last.raised # NoException
        /\ last.prediction.kind = "Error" =>
             last.prediction.s = last.raised.msg
        /\ last.prediction.kind = "Label" =>
             /\ last.predicted
             /\ last.prediction.n \in DOMAIN LABELS
             /\ last.prediction.s = LABELS[last.prediction.n]
        /\ last.prediction.kind = "Unknown" =>
             /\ last.predicted
             /\ last.prediction.n \notin DOMAIN LABELS

C4_Witness ==
    /\ last.method = "POST"
    /\ last.rendered
    /\ last.raised = ValueError("Input contains NaN")
    /\ last.prediction.kind = "Error"

\* C5: DEFAULTS_FALLBACK always equals its contents at process start.
C5_DefaultsTableFixed == DEFAULTS_FALLBACK = InitialDefaults

\* C6: a POST that ends in an error leaves the state shared between
\* requests (DEFAULTS_FALLBACK) as it was before the request.
C6_FailedPostChangesNothing ==
    [][(last'.method = "POST" /\ last'.prediction.kind = "Error")
         => DEFAULTS_FALLBACK' = DEFAULTS_FALLBACK]_vars

(***************************************************************************)
(* Claims about the categorical encoding (SpecEncode).                     *)
(***************************************************************************)
Preprocessed == dp.df.stage = "preprocessed"

\* The first element of the vector index() builds for a submission whose
\* Operation_Mode is `label`.
ServedModeCode(label) ==
    LET form == [f \in {"Operation_Mode"} |-> label]
        r    == CHOOSE r \in HandlePost(load_feature_means, form, {0}) : TRUE
    IN  r.values[1]

\* C1: for every known operation-mode label that occurs in the training
\* data, the code index() puts into the vector is the code preprocess gave
\* the rows carrying that label.
C1_ServingCodeIsTrainingCode ==
    Preprocessed =>
        \A label \in KnownModes : \A i \in 1..Len(raw_csv.rows) :
            raw_csv.rows[i].Operation_Mode.s = label =>
                ServedModeCode(label) = PyFloat(10 * dp.df.rows[i].Operation_Mode.n)

\* Row of the first appearance of row i's label in column col.
FirstRow(col, i) ==
    CHOOSE j \in 1..i :
        /\ raw_csv.rows[j][col] = raw_csv.rows[i][col]
        /\ \A k \in 1..(j - 1) : raw_csv.rows[k][col] # raw_csv.rows[i][col]

EncodedColumns == {"Operation_Mode", "Efficiency_Status"}

Alphabetical ==
    << "Active", "High", "Idle", "Low", "Maintenance", "Medium", "Standby" >>
AlphaPos(label) == CHOOSE p \in 1..Len(Alphabetical) : Alphabetical[p] = label

C7_ScalerAndModelOfOneRun ==
    last.rendered => app_scaler.run = app_model.run

\* C8: the partitions and the scaler found on disk come from one run.
C8_ProcessedFilesOfOneRun ==
    \A i, j \in 1..Len(ProcessedFiles) :
        (disk[ProcessedFiles[i]] # NoFile /\ disk[ProcessedFiles[j]] # NoFile)
            => disk[ProcessedFiles[i]].run = disk[ProcessedFiles[j]].run

MTLoaded == \A f \in SplitNames : mt.data[f] # NoFile
PipelineStateErrors == {NotLoaded, NotTrained}

\* C9: a step called before its predecessor completed raises a
\* pipeline-state error and changes neither its object nor the disk.
C9_OutOfOrderFailsFast ==
    [][/\ (DP_preprocess /\ dp.df.stage = "None") =>
            /\ dp_call'.cause \in PipelineStateErrors
            /\ UNCHANGED <<dp, disk>>
       /\ (DP_split_and_scale_and_save /\ dp.df.stage # "preprocessed") =>
            /\ dp_call'.cause \in PipelineStateErrors
            /\ UNCHANGED <<dp, disk>>
       /\ ((\E dump_ok \in BOOLEAN : MT_train_model(dump_ok)) /\ ~MTLoaded) =>
            /\ mt_call'.cause \in PipelineStateErrors
            /\ UNCHANGED <<mt, disk>>
       /\ (MT_evaluate_model /\ mt.clf.state # "fitted") =>
            /\ mt_call'.cause \in PipelineStateErrors
            /\ UNCHANGED <<mt, disk>>]_vars

\* C12: whatever the feature-means file holds, load_feature_means returns a
\* default for each of the 14 features; with a file that is not a well-formed
\* document the defaults are the built-in ones; a well-formed file changes
\* only numeric feature defaults, to its numeric values; and in every case
\* the Operation_Mode default is a known label and the date-part defaults
\* are the built-in ones.
DateParts == {"Year", "Month", "Day", "Hour"}

C12_MeansKeepModeAndDateDefaults ==
    LET fv == load_feature_means.fv
    IN  /\ DOMAIN fv = FeatureNames
        /\ means_file.kind # "dict" => fv = InitialDefaults
        /\ \A k \in FeatureNames \ (DateParts \cup {"Operation_Mode"}) :
             fv[k] # InitialDefaults[k] =>
                /\ means_file.kind = "dict"
                /\ k \in DOMAIN means_file.d
                /\ IsNumber(means_file.d[k])
                /\ fv[k] = means_file.d[k]
        /\ fv["Operation_Mode"].t = "str"
        /\ fv["Operation_Mode"].s \in KnownModes
        /\ \A k \in DateParts : fv[k] = InitialDefaults[k]

\* C13: a POST whose form has no Operation_Mode field ends with an error as
\* its prediction; no category code was put into the vector for the absent
\* field and the model was not asked for a prediction.
C13_MissingModeIsReported ==
    (last.method = "POST" /\ "Operation_Mode" \notin DOMAIN last.form) =>
        /\ last.prediction.kind = "Error"
        /\ last.values = <<>>
        /\ ~last.predicted

(***************************************************************************)
(* Claims relating LABELS to the target encoding (SpecEncode).             *)
(***************************************************************************)
\* C14: LABELS inverts the target encoding of training: for every training
\* row, the code preprocess gave its Efficiency_Status is rendered by
\* LABELS.get as that same status.
C14_LabelsInvertTargetEncoding ==
    Preprocessed =>
        \A i \in 1..Len(raw_csv.rows) :
            LET s        == raw_csv.rows[i].Efficiency_Status.s
                pred_idx == dp.df.rows[i].Efficiency_Status.n
            IN  LabelOf(pred_idx) = [kind |-> "Label", s |-> s, n |-> pred_idx]

(***************************************************************************)
(* Claims about ModelTraining.run (SpecRun).                               *)
(***************************************************************************)
\* C11: in ModelTraining.run, once train_model has returned (the fit
\* succeeded) the model fitted is on disk before evaluate_model starts, and
\* it is still there after evaluate_model, whether that returned or raised.
C11_ModelPersistedWhateverEvaluation ==
    (mt_call = Returned("train_model") \/ mt_call.op = "evaluate_model") =>
        /\ mt.clf.state = "fitted"
        /\ disk["model.pkl"] # NoFile
        /\ disk["model.pkl"].run = mt.clf.run
        /\ disk["model.pkl"].yrun = mt.clf.yrun

\* evaluate_model raised, and the model is on disk.
C11_Witness ==
    /\ mt_call = Raised("evaluate_model", "ValueError: metrics")
    /\ mt.clf.state = "fitted"
    /\ disk["model.pkl"] = [run |-> mt.clf.run, yrun |-> mt.clf.yrun,
                            n |-> mt.data["X_train.pkl"].n,
                            classes |-> mt.data["y_train.pkl"].classes]
=============================================================================
